---- MODULE Spec2Model ----
(***************************************************************************)
(* Model of the shared file multiplexer (yandextank/common/util.py:        *)
(* FileMultiReader, FileLike, FileLockedError) and of the measurement      *)
(* scope and scenario dispatch of the BFG guns                             *)
(* (yandextank/plugins/Bfg/guns.py), and of FileScanner._read_lines,       *)
(* tail_lines, Cleanup and Finish of util.py.                              *)
(*                                                                         *)
(* Python threads may be switched between any two bytecodes, so every      *)
(* access to a shared attribute (_is_locked, the file handle, the stop     *)
(* event) is a step of its own.                                            *)
(***************************************************************************)
EXTENDS Integers, Sequences, FiniteSets, TLC

(***************************************************************************)
(* Bounds of the model.                                                    *)
(***************************************************************************)
MaxFileLen == 1
MaxReadLen == 1
MaxShortDelay == 5
Capacity == 1
MaxMarkerLen == 2
MaxActions == 2
MaxRetcode == 2
MaxTailLen == 3
MaxLinesNum == 2
MaxBufsize == 2
MaxIter == 4
MaxChunkLen == 2
MaxFedLen == 4

(***************************************************************************)
(* Program constants.                                                      *)
(***************************************************************************)
WaitRandomMin == 5
WaitRandomMax == 20
StopMaxDelay == 10000
CacheSizeDefault == 52428800
BufsizeDefault == 8192

Threads == {"t1", "t2"}
Chars == {"a", "\n"}
None == <<"None">>
NoExc == "none"

VARIABLES
    file,        \* characters the writer has appended so far
    stop,        \* provider_stop_event.is_set()
    is_locked,   \* FileMultiReader._is_locked
    opened,      \* FileMultiReader._opened_file is not closed
    handlePos,   \* position of the one shared file handle
    pc,          \* per thread: where it is in read_with_lock / close / wait_lock
    call,        \* per thread: the method it is in ("read", "close", "none")
    arg_pos,     \* per thread: pos argument of read_with_lock
    arg_len,     \* per thread: _len argument of read_with_lock (0: readline)
    result,      \* per thread: local result
    stop_pos,    \* per thread: local stop_pos
    exc,         \* per thread: exception propagating out of the try block
    delay,       \* per thread: ms since the first attempt of wait_lock
    cursor,      \* per thread: its FileLike._cursor
    cache_size,  \* per thread: its FileLike.cache_size (0: no FileLike yet)
    at_eof       \* per thread: no bytes past its cursor when the handle was read

env == <<file, stop>>
handle == <<opened, handlePos>>
args == <<arg_pos, arg_len>>
locals == <<result, stop_pos, exc>>
filelike == <<cursor, cache_size>>

fvars == <<env, is_locked, handle, pc, call, args, locals, delay, filelike,
           at_eof>>

VARIABLES
    gun,         \* the configured gun type ("scenario" or "ultimate")
    scenarios,   \* names of the scenarios of the loaded module / object
    results,     \* AbstractGun.results: the bounded queue of records
    wpc,         \* per worker: where it is in shoot / measure
    raw,         \* per worker: the marker shoot was called with
    name,        \* per worker: the marker after the strip (the scenario name)
    item,        \* per worker: data_item of its measurement scope
    body,        \* per worker: what the body of its scope did
    out,         \* per worker: the exception leaving its scope
    offer        \* per worker: what became of the put of its scope

VARIABLES
    cfg,         \* the gun's section of the configuration: option -> value
    opt,         \* the last call of get_option and what it gave
    unit,        \* the loaded module has the symbol the gun needs
    phase,       \* life of the gun: "new", "constructed", "ready", "failed"
    gerr,        \* the exception that ended the construction
    attempted,   \* shoot has been called
    hooks,       \* what the attributes setup and teardown of load_test are
    init_param,  \* UltimateGun.init_param
    called       \* the hook calls made so far: setup's argument, teardown

VARIABLES
    actions,     \* Cleanup._actions: (name, fn) pairs, fn by what it raises
    queue,       \* Cleanup.__exit__: what reversed(self._actions) has left
    ran,         \* names of the cleanup actions called so far, in call order
    where,       \* the worker thread: "cleanup", "finish", "actions", "out"
    raised,      \* the exception raised in the body of the current context
    retcode,     \* tankworker.retcode
    status,      \* tankworker.status
    end_test,    \* the calls of core.plugins_end_test: argument and result
    calls,       \* the closing calls made on the worker and the core
    escaped,     \* the exception that left the Cleanup context
    msgs,        \* Cleanup.__exit__: length of its local list msgs
    worker_msgs  \* number of messages tankworker.add_msgs has been given

worker == <<actions, queue, ran, where, raised, retcode, status, end_test,
            calls, escaped, msgs, worker_msgs>>

VARIABLES
    tail_file,   \* tail_lines: the content of the file at filepath
    lines_num,   \* tail_lines: the argument lines_num
    bufsize,     \* tail_lines: the argument and local bufsize
    iter_,       \* tail_lines: the local iter_
    data,        \* tail_lines: the local list data
    tail_pc,     \* tail_lines: "open", "loop" or "done"
    tail_ret     \* tail_lines: the list it returned

tail == <<tail_file, lines_num, bufsize, iter_, data, tail_pc, tail_ret>>

VARIABLES
    sep,         \* FileScanner.__sep
    buffer,      \* FileScanner.__buffer
    chunk,       \* the chunk of the last call of _read_lines
    fed,         \* all chunks given to _read_lines so far, concatenated
    yielded      \* all portions _read_lines has yielded so far

scanner == <<sep, buffer, chunk, fed, yielded>>

uvars == <<worker, tail, scanner>>

setup == <<cfg, opt, unit, phase, gerr, attempted, hooks, init_param, called,
           uvars>>
config == <<gun, scenarios, setup>>
shot == <<raw, name>>
scope == <<item, body, out, offer>>

gvars == <<config, results, wpc, shot, scope>>

vars == <<fvars, gvars>>

Min(a, b) == IF a < b THEN a ELSE b

(***************************************************************************)
(* The file handle: read(n) and readline() from position p.                *)
(***************************************************************************)
FileRead(f, p, n) ==
    IF p >= Len(f) THEN <<>> ELSE SubSeq(f, p + 1, Min(p + n, Len(f)))

RECURSIVE LineEnd(_, _)
LineEnd(f, p) ==
    IF p >= Len(f) THEN Len(f)
    ELSE IF f[p + 1] = "\n" THEN p + 1
    ELSE LineEnd(f, p + 1)

FileReadline(f, p) ==
    IF p >= Len(f) THEN <<>> ELSE SubSeq(f, p + 1, LineEnd(f, p))

\* result = self._opened_file.read(_len) if _len is not None else readline()
ReadData(f, p, n) == IF n # 0 THEN FileRead(f, p, n) ELSE FileReadline(f, p)

\* if not result and self.stop.is_set(): result = None
Sentinel(res, stopped) == IF res = <<>> /\ stopped THEN None ELSE res

\* get_file: cache_size = self.cache_size if not cache_size else cache_size
GetFileCacheSize(cs) == IF cs = 0 THEN CacheSizeDefault ELSE cs

\* FileLike.read: _len = self.cache_size if not _len else _len
ReadLen(n, cs) == IF n = 0 THEN cs ELSE n

\* (mutant) a retry decorator without stop_max_delay never stops
StopAfterDelay_Never(d) == FALSE

\* retry(stop_max_delay=10000): stop once the delay since the first attempt
\* has reached the budget
StopAfterDelay(d) == d >= StopMaxDelay

\* retry(retry_on_exception=FileLockedError.retry)
ShouldRetry(e) == e = "FileLockedError"

\* wait_lock's body: raises when the flag is set
WaitLockRaises(locked) == IF locked THEN "FileLockedError" ELSE NoExc

\* a read_with_lock whose unlock is not in a finally block
AfterRaise_NoFinally(e) == "ret"

\* try: ... finally: self.unlock() -- an exception of seek, read or tell
\* goes through unlock on its way out
AfterRaise(e) == "unlock"

\* a read that goes on from wherever the handle was left
SeekTarget_Keep(pos, hp) == hp

\* self._opened_file.seek(pos): the handle goes to the caller's position
SeekTarget(pos, hp) == pos

\* a handle whose close() fails once it is closed
HandleCloseRaises_WhenClosed(isOpen) == IF isOpen THEN NoExc ELSE "ValueError"

\* self._opened_file.close(): closing a closed file object does nothing
HandleCloseRaises(isOpen) == NoExc

InCritical(t) == pc[t] \in {"seek", "read", "tell", "fclose", "unlock"}

FileInit ==
    /\ file = <<>>
    /\ stop = FALSE
    /\ is_locked = FALSE
    /\ opened = TRUE
    /\ handlePos = 0
    /\ pc = [t \in Threads |-> "idle"]
    /\ call = [t \in Threads |-> "none"]
    /\ arg_pos = [t \in Threads |-> 0]
    /\ arg_len = [t \in Threads |-> 0]
    /\ result = [t \in Threads |-> <<>>]
    /\ stop_pos = [t \in Threads |-> 0]
    /\ exc = [t \in Threads |-> NoExc]
    /\ delay = [t \in Threads |-> 0]
    /\ cursor = [t \in Threads |-> 0]
    /\ cache_size = [t \in Threads |-> 0]
    /\ at_eof = [t \in Threads |-> FALSE]

(***************************************************************************)
(* The guns: constants and pure parts of guns.py.                          *)
(***************************************************************************)
Workers == {"w1", "w2"}
MarkerChars == {"a", "#"}
Default == <<"d", "e", "f", "a", "u", "l", "t">>
\* what the loaded test code offers: the SCENARIOS dict of the module, or
\* the callable attributes of the LoadTest object
Callables(g) == IF g = "scenario" THEN {<<"a">>, Default} ELSE {<<"a">>}
ElapsedMicros == {3}
NoName == <<"-">>

\* exceptions a scope body can raise: a subclass of Exception, and one that
\* is only a BaseException (KeyboardInterrupt, SystemExit)
Errors == {"ValueError", "KeyboardInterrupt"}
IsException(e) == e # "KeyboardInterrupt"

\* interval_real: None until it is set
NoInterval == -1
\* the body leaves a field alone
Keep == -2

\* data_item as measure() creates it (the fields no claim reads are left out)
NewItem == [interval_real |-> NoInterval, net_code |-> 0, proto_code |-> 200]
NoItem == [interval_real |-> NoInterval, net_code |-> Keep, proto_code |-> Keep]
\* what the call made inside the body came to (HttpGun, SqlGun)
NoOutcome == [kind |-> "-", status |-> 0]
NoBody == [proto |-> Keep, net |-> Keep, interval |-> Keep, err |-> NoExc,
           what |-> NoOutcome]

\* the assignments the body of the scope makes to data_item
ApplyBody(di, b) ==
    [interval_real |-> IF b.interval = Keep THEN di.interval_real ELSE b.interval,
     net_code |-> IF b.net = Keep THEN di.net_code ELSE b.net,
     proto_code |-> IF b.proto = Keep THEN di.proto_code ELSE b.proto]

\* an except block that sets proto_code to 500 whatever the body assigned
ExceptHandler_Always(di) == [di EXCEPT !.proto_code = 500]

\* except Exception: proto_code 200 becomes 500; the line for net_code is
\* the comparison data_item["net_code"] == 1, which assigns nothing
ExceptHandler(di) ==
    [di EXCEPT !.proto_code = IF @ = 200 THEN 500 ELSE @,
               !.net_code = @]

\* a finally block that leaves interval_real as the body left it
FinallyInterval_Skip(di, elapsed) == di

\* "if not data_item.get("interval_real")" in place of the test against None
FinallyInterval_Falsy(di, elapsed) ==
    [di EXCEPT !.interval_real = IF @ = NoInterval \/ @ = 0 THEN elapsed ELSE @]

\* finally: interval_real, when still None, becomes the elapsed microseconds
FinallyInterval(di, elapsed) ==
    [di EXCEPT !.interval_real = IF @ = NoInterval THEN elapsed ELSE @]

\* self.results.put(data_item, block=False): raises Full on a full queue
QueueFull(q) == Len(q) >= Capacity
\* a scope that never reaches its put
QueuePut_Lost(q, di) == q
\* a put that takes the record whatever the size of the queue
QueuePut_Unbounded(q, di) == Append(q, di)
QueuePut(q, di) == IF QueueFull(q) THEN q ELSE Append(q, di)
\* put(..., block): a blocking put waits while the queue is full
PutBlocks(q, block) == block /\ QueueFull(q)
\* except Full: logger.error("Results full. Data corrupted")
PutOutcome(q) == IF QueueFull(q) THEN "dropped" ELSE "accepted"

\* a finally block that lets queue.Full out in place of the pending exception
ScopeRaises_FullReplaces(pending, full) == IF full THEN "Full" ELSE pending

\* the exception that leaves the scope: the pending one; Full is caught
\* inside the finally block
ScopeRaises(pending, full) == pending

\* marker.rsplit("#", 1)[0]
RECURSIVE LastHash(_, _)
LastHash(m, i) ==
    IF i = 0 THEN 0 ELSE IF m[i] = "#" THEN i ELSE LastHash(m, i - 1)

\* marker.split("#", 1)[0]: the cut at the first separator
RSplitHead_First(m) ==
    IF \A i \in 1..Len(m) : m[i] # "#" THEN m
    ELSE SubSeq(m, 1, (CHOOSE k \in 1..Len(m) :
                          m[k] = "#" /\ \A j \in 1..(k - 1) : m[j] # "#") - 1)

RSplitHead(m) ==
    IF LastHash(m, Len(m)) = 0 THEN m ELSE SubSeq(m, 1, LastHash(m, Len(m)) - 1)

\* marker = marker.rsplit("#", 1)[0]; if not marker: marker = "default"
ScenarioName(m) == IF RSplitHead(m) = <<>> THEN Default ELSE RSplitHead(m)

\* ScenarioGun: scenario = self.scenarios.get(marker, None); if scenario:
\* UltimateGun: scenario = getattr(self.load_test, marker, None);
\*              if callable(scenario):
ScenarioFound(g, table, n) == n \in table

\* a shoot without its try statement
ShootCatches_Nothing(e) == FALSE

\* shoot: except Exception as e: logger.warning(...)
ShootCatches(e) == IsException(e)

\* the exception that leaves shoot, given the one that left the scope:
\* CustomGun, ScenarioGun and UltimateGun call the user code inside
\* try / except Exception; HttpGun and SqlGun have nothing around the scope
ShootRaises(g, e) ==
    IF g \in {"custom", "scenario", "ultimate"} /\ e # NoExc /\ ShootCatches(e)
      THEN NoExc ELSE e

\* requests.get(...): a response with its status, a ConnectionError, or
\* another exception of requests (a read timeout)
HttpStatuses == {200, 503}
HttpOutcomes ==
    {[kind |-> "response", status |-> c] : c \in HttpStatuses} \cup
    {[kind |-> k, status |-> 0] : k \in {"ConnectionError", "ReadTimeout"}}

\* an HttpGun without the except clause
HttpBody_NoCatch(o) ==
    IF o.kind = "response"
      THEN [proto |-> o.status, net |-> Keep, interval |-> Keep,
            err |-> NoExc, what |-> o]
      ELSE [proto |-> Keep, net |-> Keep, interval |-> Keep,
            err |-> o.kind, what |-> o]

\* HttpGun.shoot, the body of its scope
HttpBody(o) ==
    IF o.kind = "response"
      THEN [proto |-> o.status, net |-> Keep, interval |-> Keep,
            err |-> NoExc, what |-> o]
    ELSE IF o.kind = "ConnectionError"
      THEN [proto |-> 500, net |-> 1, interval |-> Keep,
            err |-> NoExc, what |-> o]
      ELSE [proto |-> Keep, net |-> Keep, interval |-> Keep,
            err |-> o.kind, what |-> o]

\* engine.execute(...) / fetchall() / close(): success, or an exception of
\* sqlalchemy.exc.  DBAPIError is the SQLAlchemyError that wraps a driver
\* exception and has the attribute orig; other SQLAlchemyErrors
\* (ArgumentError, InvalidRequestError, ...) have no orig.
SqlOutcomes ==
    {[kind |-> k, status |-> 0] :
        k \in {"ok", "TimeoutError", "ResourceClosedError", "DBAPIError",
               "SQLAlchemyError", "SAWarning", "Exception"}}

\* the local proto_code and errno after the try statement of SqlGun.shoot
SqlProtoCode(k) ==
    IF k \in {"DBAPIError", "Exception"} THEN 500
    ELSE IF k = "SAWarning" THEN 400
    ELSE 200

SqlErrno(k) == IF k = "TimeoutError" THEN 110 ELSE 0

\* except self.exc.SQLAlchemyError as e: ... logger.debug(e.orig.args)
SqlHandlerRaises(k) == IF k = "SQLAlchemyError" THEN "AttributeError" ELSE NoExc

\* SqlGun.shoot, the body of its scope: the two assignments to di are
\* reached unless a handler raised
SqlBody(o) ==
    IF SqlHandlerRaises(o.kind) = NoExc
      THEN [proto |-> SqlProtoCode(o.kind), net |-> SqlErrno(o.kind),
            interval |-> Keep, err |-> NoExc, what |-> o]
      ELSE [proto |-> Keep, net |-> Keep, interval |-> Keep,
            err |-> SqlHandlerRaises(o.kind), what |-> o]

\* rt = randint(2, 30000) * 1000, drawn before the scope is opened
RandMin == 2
RandMax == 30000
RtFactor == 1000
LogOutcomes == {[kind |-> "rt", status |-> r * RtFactor] : r \in {RandMin, RandMax}}

\* LogGun.shoot, the body of its scope: di["interval_real"] = rt
LogBody(o) ==
    [proto |-> Keep, net |-> Keep, interval |-> o.status, err |-> NoExc,
     what |-> o]

\* the guns whose shoot is one scope with a body of their own
FixedGuns == {"log", "http", "sql"}
FixedOutcomes(g) ==
    IF g = "http" THEN HttpOutcomes
    ELSE IF g = "sql" THEN SqlOutcomes
    ELSE LogOutcomes
FixedBody(g, o) ==
    IF g = "http" THEN HttpBody(o)
    ELSE IF g = "sql" THEN SqlBody(o)
    ELSE LogBody(o)

RECURSIVE SeqsUpTo(_, _)
SeqsUpTo(S, n) ==
    IF n = 0 THEN {<<>>}
    ELSE SeqsUpTo(S, n - 1) \cup
         {Append(q, c) : q \in SeqsUpTo(S, n - 1), c \in S}

Markers == SeqsUpTo(MarkerChars, MaxMarkerLen)

\* options of the gun sections, their values (one of them falsy), None
Keys == {"db", "param"}
Vals == {"", "x"}
NoneVal == "<None>"
Absent == "<absent>"
NoCall == [key |-> "-", default |-> NoneVal, value |-> NoneVal, exc |-> NoExc]

\* AbstractPlugin.get_option: the lookup in the plugin's section, KeyError
\* for an option the section does not have
PluginGetOptionRaises(c, key) == IF c[key] = Absent THEN "KeyError" ELSE NoExc
PluginGetOption(c, key) == c[key]

\* "if default_value:" in place of the test against None
DefaultSupplied_Truthy(d) == d \notin {NoneVal, ""}

\* if default_value is not None:
DefaultSupplied(d) == d # NoneVal

\* AbstractGun.get_option: the exception it raises, the value it returns
GetOptionRaises(c, key, d) ==
    IF PluginGetOptionRaises(c, key) = "KeyError" /\ ~DefaultSupplied(d)
      THEN "GunConfigError" ELSE NoExc

GetOptionValue(c, key, d) ==
    IF PluginGetOptionRaises(c, key) = NoExc THEN PluginGetOption(c, key)
    ELSE IF DefaultSupplied(d) THEN d
    ELSE NoneVal

\* the constructors of the guns that load user code:
\* CustomGun only executes the module; ScenarioGun reads module.SCENARIOS;
\* UltimateGun looks the class up and checks that it is a type
ConstructRaises(g, hasSymbol) ==
    IF hasSymbol THEN NoExc
    ELSE IF g = "scenario" THEN "AttributeError"
    ELSE IF g = "ultimate" THEN "NotImplementedError"
    ELSE NoExc

\* an attribute of the loaded object: a method, a value that is no
\* callable, or no such attribute
HookKinds == {"callable", "attribute", "absent"}
HookNames == {"setup", "teardown"}
NotCalled == "<not called>"
NoCalls == [setup |-> NotCalled, teardown |-> FALSE]

\* hasattr(...) in place of callable(getattr(..., None))
HookIsCalled_HasAttr(kind) == kind # "absent"

\* if callable(getattr(self.load_test, "setup", None)):
HookIsCalled(kind) == kind = "callable"

\* no Cleanup or Finish context is in use
WorkerRest ==
    /\ actions = <<>>
    /\ queue = <<>>
    /\ ran = <<>>
    /\ where = "none"
    /\ raised = NoExc
    /\ retcode = 0
    /\ status = "none"
    /\ end_test = <<>>
    /\ calls = <<>>
    /\ escaped = NoExc
    /\ msgs = 0
    /\ worker_msgs = 0

\* no tail_lines call is under way
TailRest ==
    /\ tail_file = <<>>
    /\ lines_num = 1
    /\ bufsize = BufsizeDefault
    /\ iter_ = 0
    /\ data = <<>>
    /\ tail_pc = "none"
    /\ tail_ret = <<>>

\* no FileScanner
ScannerRest ==
    /\ sep = <<"\n">>
    /\ buffer = <<>>
    /\ chunk = <<>>
    /\ fed = <<>>
    /\ yielded = <<>>

UtilRest == WorkerRest /\ TailRest /\ ScannerRest

ConfigRest ==
    /\ cfg = [k \in Keys |-> Absent]
    /\ opt = NoCall
    /\ unit = TRUE
    /\ phase = "ready"
    /\ gerr = NoExc
    /\ attempted = FALSE
    /\ hooks = [h \in HookNames |-> "absent"]
    /\ init_param = NoneVal
    /\ called = NoCalls

SetupRest == ConfigRest /\ UtilRest

GunRest ==
    /\ results = <<>>
    /\ wpc = [w \in Workers |-> "idle"]
    /\ raw = [w \in Workers |-> NoName]
    /\ name = [w \in Workers |-> NoName]
    /\ item = [w \in Workers |-> NoItem]
    /\ body = [w \in Workers |-> NoBody]
    /\ out = [w \in Workers |-> NoExc]
    /\ offer = [w \in Workers |-> "none"]

Init ==
    /\ FileInit
    /\ gun = "scenario"
    /\ scenarios = {}
    /\ GunRest
    /\ SetupRest

(***************************************************************************)
(* The writer process and the stop event (outside the multiplexer).        *)
(***************************************************************************)
WriterAppend ==
    /\ ~stop
    /\ Len(file) < MaxFileLen
    /\ \E ch \in Chars : file' = Append(file, ch)
    /\ UNCHANGED gvars
    /\ UNCHANGED <<stop, is_locked, handle, pc, call, args, locals, delay,
                   filelike, at_eof>>

SetStop ==
    /\ ~stop
    /\ stop' = TRUE
    /\ UNCHANGED gvars
    /\ UNCHANGED <<file, is_locked, handle, pc, call, args, locals, delay,
                   filelike, at_eof>>

(***************************************************************************)
(* FileMultiReader.get_file / FileLike.__init__                            *)
(***************************************************************************)
\* get_file() is called without a cache size (cache_size=None)
GetFile(t) ==
    /\ cache_size[t] = 0
    /\ cache_size' = [cache_size EXCEPT ![t] = GetFileCacheSize(0)]
    /\ cursor' = [cursor EXCEPT ![t] = 0]
    /\ UNCHANGED gvars
    /\ UNCHANGED <<env, is_locked, handle, pc, call, args, locals, delay,
                   at_eof>>

(***************************************************************************)
(* FileLike.read(_len) / FileLike.readline(): the call of read_with_lock.  *)
(***************************************************************************)
CallRead(t) ==
    /\ pc[t] = "idle"
    /\ cache_size[t] # 0
    /\ \E n \in 0..MaxReadLen :
          arg_len' = [arg_len EXCEPT ![t] = ReadLen(n, cache_size[t])]
    /\ arg_pos' = [arg_pos EXCEPT ![t] = cursor[t]]
    /\ call' = [call EXCEPT ![t] = "read"]
    /\ pc' = [pc EXCEPT ![t] = "wait_lock"]
    /\ UNCHANGED gvars
    /\ UNCHANGED <<env, is_locked, handle, locals, delay, filelike, at_eof>>

CallReadline(t) ==
    /\ pc[t] = "idle"
    /\ cache_size[t] # 0
    /\ arg_len' = [arg_len EXCEPT ![t] = 0]
    /\ arg_pos' = [arg_pos EXCEPT ![t] = cursor[t]]
    /\ call' = [call EXCEPT ![t] = "read"]
    /\ pc' = [pc EXCEPT ![t] = "wait_lock"]
    /\ UNCHANGED gvars
    /\ UNCHANGED <<env, is_locked, handle, locals, delay, filelike, at_eof>>

\* FileMultiReader.close: self.wait_lock() first
CallClose(t) ==
    /\ pc[t] = "idle"
    /\ call' = [call EXCEPT ![t] = "close"]
    /\ pc' = [pc EXCEPT ![t] = "wait_lock"]
    /\ UNCHANGED gvars
    /\ UNCHANGED <<env, is_locked, handle, args, locals, delay, filelike,
                   at_eof>>

(***************************************************************************)
(* FileMultiReader.wait_lock under the retry decorator.                    *)
(***************************************************************************)
\* if self._is_locked: (false) -- the assignment is a later bytecode
WaitLockFree(t) ==
    /\ pc[t] = "wait_lock"
    /\ WaitLockRaises(is_locked) = NoExc
    /\ pc' = [pc EXCEPT ![t] = "set_lock"]
    /\ delay' = [delay EXCEPT ![t] = 0]
    /\ UNCHANGED gvars
    /\ UNCHANGED <<env, is_locked, handle, call, args, locals, filelike,
                   at_eof>>

\* if self._is_locked: raise FileLockedError; the decorator then gives up
\* (RetryError, which read_with_lock and close let through: the call is
\* outside their try block) once the budget is spent, or sleeps
\* random.randint(5, 20) ms and tries again; the thread may be scheduled
\* again much later than it asked for
WaitLockBusyFor(t, d, cap) ==
    /\ pc[t] = "wait_lock"
    /\ WaitLockRaises(is_locked) # NoExc
    /\ IF ShouldRetry(WaitLockRaises(is_locked)) /\ ~StopAfterDelay(delay[t])
         THEN /\ delay[t] + d <= cap \/ d >= StopMaxDelay
              /\ delay' = [delay EXCEPT ![t] = Min(@ + d, StopMaxDelay)]
              /\ UNCHANGED <<pc, exc>>
         ELSE /\ pc' = [pc EXCEPT ![t] = "ret"]
              /\ exc' = [exc EXCEPT ![t] = "RetryError"]
              /\ delay' = [delay EXCEPT ![t] = 0]
    /\ UNCHANGED gvars
    /\ UNCHANGED <<env, is_locked, handle, call, args, result, stop_pos,
                   filelike, at_eof>>

WaitLockBusy(t) ==
    \E d \in {WaitRandomMin, StopMaxDelay} :
        WaitLockBusyFor(t, d, MaxShortDelay)

\* self._is_locked = True; return True
SetLock(t) ==
    /\ pc[t] = "set_lock"
    /\ is_locked' = TRUE
    /\ pc' = [pc EXCEPT ![t] = IF call[t] = "read" THEN "seek" ELSE "fclose"]
    /\ UNCHANGED gvars
    /\ UNCHANGED <<env, handle, call, args, locals, delay, filelike, at_eof>>

(***************************************************************************)
(* FileMultiReader.read_with_lock, after wait_lock.                        *)
(***************************************************************************)
\* self._opened_file.seek(pos)
Seek(t) ==
    /\ pc[t] = "seek"
    /\ IF opened
         THEN /\ handlePos' = SeekTarget(arg_pos[t], handlePos)
              /\ pc' = [pc EXCEPT ![t] = "read"]
              /\ exc' = exc
         ELSE /\ handlePos' = handlePos
              /\ pc' = [pc EXCEPT ![t] = AfterRaise("ValueError")]
              /\ exc' = [exc EXCEPT ![t] = "ValueError"]
    /\ UNCHANGED gvars
    /\ UNCHANGED <<env, is_locked, opened, call, args, result, stop_pos,
                   delay, filelike, at_eof>>

\* result = self._opened_file.read(_len) / readline()
ReadStep(t) ==
    /\ pc[t] = "read"
    /\ IF opened
         THEN /\ result' = [result EXCEPT
                               ![t] = ReadData(file, handlePos, arg_len[t])]
              /\ handlePos' = handlePos + Len(result'[t])
              /\ at_eof' = [at_eof EXCEPT ![t] = arg_pos[t] >= Len(file)]
              /\ pc' = [pc EXCEPT ![t] = "tell"]
              /\ exc' = exc
         ELSE /\ UNCHANGED <<result, handlePos, at_eof>>
              /\ pc' = [pc EXCEPT ![t] = AfterRaise("ValueError")]
              /\ exc' = [exc EXCEPT ![t] = "ValueError"]
    /\ UNCHANGED gvars
    /\ UNCHANGED <<env, is_locked, opened, call, args, stop_pos, delay,
                   filelike>>

\* stop_pos = self._opened_file.tell()
Tell(t) ==
    /\ pc[t] = "tell"
    /\ IF opened
         THEN /\ stop_pos' = [stop_pos EXCEPT ![t] = handlePos]
              /\ pc' = [pc EXCEPT ![t] = "unlock"]
              /\ exc' = exc
         ELSE /\ stop_pos' = stop_pos
              /\ pc' = [pc EXCEPT ![t] = AfterRaise("ValueError")]
              /\ exc' = [exc EXCEPT ![t] = "ValueError"]
    /\ UNCHANGED gvars
    /\ UNCHANGED <<env, is_locked, handle, call, args, result, delay,
                   filelike, at_eof>>

\* close: self._opened_file.close()
\* (close has no try block: an exception here would skip unlock)
FClose(t) ==
    /\ pc[t] = "fclose"
    /\ IF HandleCloseRaises(opened) = NoExc
         THEN /\ opened' = FALSE
              /\ pc' = [pc EXCEPT ![t] = "unlock"]
              /\ exc' = exc
         ELSE /\ opened' = opened
              /\ pc' = [pc EXCEPT ![t] = "ret"]
              /\ exc' = [exc EXCEPT ![t] = HandleCloseRaises(opened)]
    /\ UNCHANGED gvars
    /\ UNCHANGED <<env, is_locked, handlePos, call, args, result, stop_pos,
                   delay, filelike, at_eof>>

\* unlock(): self._is_locked = False (the finally block of read_with_lock,
\* the last line of close)
Unlock(t) ==
    /\ pc[t] = "unlock"
    /\ is_locked' = FALSE
    /\ pc' = [pc EXCEPT ![t] = IF call[t] = "close" THEN "ret"
                               ELSE IF exc[t] # NoExc THEN "ret"
                               ELSE "check"]
    /\ UNCHANGED gvars
    /\ UNCHANGED <<env, handle, call, args, locals, delay, filelike, at_eof>>

\* if not result and self.stop.is_set(): result = None
StopCheck(t) ==
    /\ pc[t] = "check"
    /\ result' = [result EXCEPT ![t] = Sentinel(@, stop)]
    /\ pc' = [pc EXCEPT ![t] = "ret"]
    /\ UNCHANGED gvars
    /\ UNCHANGED <<env, is_locked, handle, call, args, stop_pos, exc, delay,
                   filelike, at_eof>>

\* FileLike.read / readline: result, self._cursor = read_with_lock(...);
\* return result.  The assignment is not reached when the call raised.
\* a FileLike that stores the position whatever the call did
FileLikeCursor_Always(cur, e, newpos) == newpos

FileLikeCursor(cur, e, newpos) == IF e # NoExc THEN cur ELSE newpos

\* read_with_lock or close hands its result or its exception to its caller
Return(t) ==
    /\ pc[t] = "ret"
    /\ cursor' = [cursor EXCEPT
                     ![t] = IF call[t] = "read"
                              THEN FileLikeCursor(@, exc[t], stop_pos[t])
                              ELSE @]
    /\ pc' = [pc EXCEPT ![t] = "idle"]
    /\ call' = [call EXCEPT ![t] = "none"]
    /\ exc' = [exc EXCEPT ![t] = NoExc]
    /\ result' = [result EXCEPT ![t] = <<>>]
    /\ stop_pos' = [stop_pos EXCEPT ![t] = 0]
    /\ arg_pos' = [arg_pos EXCEPT ![t] = 0]
    /\ arg_len' = [arg_len EXCEPT ![t] = 0]
    /\ at_eof' = [at_eof EXCEPT ![t] = FALSE]
    /\ UNCHANGED gvars
    /\ UNCHANGED <<env, is_locked, handle, delay, cache_size>>

Next ==
    \/ WriterAppend
    \/ SetStop
    \/ \E t \in Threads : GetFile(t)
    \/ \E t \in Threads : CallRead(t)
    \/ \E t \in Threads : CallReadline(t)
    \/ \E t \in Threads : CallClose(t)
    \/ \E t \in Threads : WaitLockFree(t)
    \/ \E t \in Threads : WaitLockBusy(t)
    \/ \E t \in Threads : SetLock(t)
    \/ \E t \in Threads : Seek(t)
    \/ \E t \in Threads : ReadStep(t)
    \/ \E t \in Threads : Tell(t)
    \/ \E t \in Threads : FClose(t)
    \/ \E t \in Threads : Unlock(t)
    \/ \E t \in Threads : StopCheck(t)
    \/ \E t \in Threads : Return(t)

Spec == Init /\ [][Next]_vars

(***************************************************************************)
(* The guns.  The module (ScenarioGun) or the object (UltimateGun) is      *)
(* loaded at construction; the workers share the gun and the queue.        *)
(***************************************************************************)
InitGun ==
    /\ FileInit
    /\ gun \in {"scenario", "ultimate", "log"}
    /\ scenarios = Callables(gun)
    /\ GunRest
    /\ SetupRest

\* ScenarioGun.shoot / UltimateGun.shoot: the strip of the marker
Shoot(w) ==
    /\ wpc[w] = "idle"
    /\ gun \notin FixedGuns
    /\ \E m \in Markers :
          /\ raw' = [raw EXCEPT ![w] = m]
          /\ name' = [name EXCEPT ![w] = ScenarioName(m)]
    /\ wpc' = [wpc EXCEPT ![w] = "lookup"]
    /\ out' = [out EXCEPT ![w] = NoExc]
    /\ UNCHANGED <<config, results, item, body, offer>>
    /\ UNCHANGED fvars

\* the lookup of the scenario: it is called (and opens its measurement
\* scope: measure() builds data_item), or "Scenario not found" is logged
\* and shoot returns
Dispatch(w) ==
    /\ wpc[w] = "lookup"
    /\ IF ScenarioFound(gun, scenarios, name[w])
         THEN /\ wpc' = [wpc EXCEPT ![w] = "body"]
              /\ item' = [item EXCEPT ![w] = NewItem]
         ELSE /\ wpc' = [wpc EXCEPT ![w] = "idle"]
              /\ item' = item
    /\ raw' = [raw EXCEPT ![w] = NoName]
    /\ name' = [name EXCEPT ![w] = NoName]
    /\ UNCHANGED <<config, results, body, out, offer>>
    /\ UNCHANGED fvars

\* "with measure(marker) as di": the body makes any assignments to the
\* result codes and to interval_real and completes or raises; an Exception
\* runs the except block; the finally block sets interval_real and makes the
\* non-blocking put (Full is logged and the record dropped); the pending
\* exception goes on to the caller of the scope.  Only the put touches
\* shared state.
Measure(w) ==
    /\ wpc[w] = "body"
    /\ ~PutBlocks(results, FALSE)
    /\ \E p \in {Keep, 404}, n \in {Keep, 7}, i \in {Keep, 0},
          e \in Errors \cup {NoExc}, elapsed \in ElapsedMicros :
          /\ body' = [body EXCEPT ![w] =
                         [proto |-> p, net |-> n, interval |-> i, err |-> e,
                          what |-> NoOutcome]]
          /\ item' = [item EXCEPT ![w] =
                         FinallyInterval(
                             IF e # NoExc /\ IsException(e)
                               THEN ExceptHandler(ApplyBody(@, body'[w]))
                               ELSE ApplyBody(@, body'[w]),
                             elapsed)]
          /\ out' = [out EXCEPT ![w] = ScopeRaises(e, QueueFull(results))]
    /\ results' = QueuePut(results, item'[w])
    /\ offer' = [offer EXCEPT ![w] = PutOutcome(results)]
    /\ wpc' = [wpc EXCEPT ![w] = "exit"]
    /\ UNCHANGED <<config, shot>>
    /\ UNCHANGED fvars

\* the scope has raised or returned into the scenario, which lets the
\* exception through to shoot; shoot logs an Exception and returns to the
\* worker, which goes on to its next missile (out keeps the exception that
\* was logged until then); any other exception leaves shoot and ends the
\* worker
ShootReturn(w) ==
    /\ wpc[w] = "exit"
    /\ wpc' = [wpc EXCEPT ![w] = IF ShootRaises(gun, out[w]) = NoExc
                                   THEN "idle" ELSE "dead"]
    /\ item' = [item EXCEPT ![w] = NoItem]
    /\ body' = [body EXCEPT ![w] = NoBody]
    /\ out' = out
    /\ offer' = [offer EXCEPT ![w] = "none"]
    /\ UNCHANGED <<config, results, shot>>
    /\ UNCHANGED fvars

\* the aggregator takes the next record off the queue
Drain ==
    /\ results # <<>>
    /\ results' = Tail(results)
    /\ UNCHANGED <<config, wpc, shot, scope>>
    /\ UNCHANGED fvars

\* LogGun.shoot / HttpGun.shoot / SqlGun.shoot: the scope is opened, the body makes its
\* call and its assignments, the scope closes (except block, finally block,
\* put) and what it raises leaves shoot
FixedShoot(w) ==
    /\ wpc[w] = "idle"
    /\ gun \in FixedGuns
    /\ ~PutBlocks(results, FALSE)
    /\ \E o \in FixedOutcomes(gun), elapsed \in ElapsedMicros :
          /\ body' = [body EXCEPT ![w] = FixedBody(gun, o)]
          /\ item' = [item EXCEPT ![w] =
                         FinallyInterval(
                             IF body'[w].err # NoExc /\ IsException(body'[w].err)
                               THEN ExceptHandler(ApplyBody(NewItem, body'[w]))
                               ELSE ApplyBody(NewItem, body'[w]),
                             elapsed)]
          /\ out' = [out EXCEPT ![w] =
                        ScopeRaises(body'[w].err, QueueFull(results))]
    /\ results' = QueuePut(results, item'[w])
    /\ offer' = [offer EXCEPT ![w] = PutOutcome(results)]
    /\ wpc' = [wpc EXCEPT ![w] = "exit"]
    /\ UNCHANGED <<config, shot>>
    /\ UNCHANGED fvars

NextGun ==
    \/ \E w \in Workers : Shoot(w)
    \/ \E w \in Workers : Dispatch(w)
    \/ \E w \in Workers : Measure(w)
    \/ \E w \in Workers : FixedShoot(w)
    \/ \E w \in Workers : ShootReturn(w)
    \/ Drain

SpecGun == InitGun /\ [][NextGun]_vars

(***************************************************************************)
(* The guns whose shoot is one measurement scope around one call:          *)
(* HttpGun and SqlGun.                                                     *)
(***************************************************************************)
\* SqlGun.__init__ as written cannot complete: it calls
\* AbstractGun.__init__(core) without the cfg argument.  shoot is modelled
\* for a gun object whose engine and exc fields are set.
InitShots ==
    /\ FileInit
    /\ GunRest
    /\ SetupRest
    /\ gun \in {"http", "sql"}
    /\ scenarios = {}

NextShots ==
    \/ \E w \in Workers : FixedShoot(w)
    \/ \E w \in Workers : ShootReturn(w)
    \/ Drain

SpecShots == InitShots /\ [][NextShots]_vars

(***************************************************************************)
(* Configuration and construction of the guns that load user code.         *)
(***************************************************************************)
InitSetup ==
    /\ FileInit
    /\ GunRest
    /\ gun \in {"custom", "scenario", "ultimate"}
    /\ unit \in BOOLEAN
    /\ scenarios = IF unit THEN Callables(gun) ELSE {}
    /\ cfg \in [Keys -> Vals \cup {Absent}]
    /\ opt = NoCall
    /\ phase = "new"
    /\ gerr = NoExc
    /\ attempted = FALSE
    /\ hooks \in [HookNames -> HookKinds]
    /\ init_param \in Vals
    /\ called = NoCalls
    /\ UtilRest

\* AbstractGun.get_option(key, default_value=None)
GetOption ==
    /\ \E key \in Keys, d \in Vals \cup {NoneVal} :
          opt' = [key |-> key, default |-> d,
                  value |-> IF GetOptionRaises(cfg, key, d) = NoExc
                              THEN GetOptionValue(cfg, key, d) ELSE NoneVal,
                  exc |-> GetOptionRaises(cfg, key, d)]
    /\ UNCHANGED <<gun, scenarios, cfg, unit, phase, gerr, attempted>>
    /\ UNCHANGED <<hooks, init_param, called, uvars>>
    /\ UNCHANGED <<results, wpc, shot, scope>>
    /\ UNCHANGED fvars

\* CustomGun.__init__ / ScenarioGun.__init__ / UltimateGun.__init__
Construct ==
    /\ phase = "new"
    /\ gerr' = ConstructRaises(gun, unit)
    /\ phase' = IF gerr' = NoExc THEN "constructed" ELSE "failed"
    /\ UNCHANGED <<gun, scenarios, cfg, opt, unit, attempted>>
    /\ UNCHANGED <<hooks, init_param, called, uvars>>
    /\ UNCHANGED <<results, wpc, shot, scope>>
    /\ UNCHANGED fvars

\* setup(): CustomGun and ScenarioGun call the init hook of the module,
\* when it has one; UltimateGun calls load_test.setup(self.init_param) when
\* that attribute is callable
GunSetup ==
    /\ phase = "constructed"
    /\ phase' = "ready"
    /\ called' = IF gun = "ultimate" /\ HookIsCalled(hooks["setup"])
                   THEN [called EXCEPT !.setup = init_param]
                   ELSE called
    /\ UNCHANGED <<gun, scenarios, cfg, opt, unit, gerr, attempted>>
    /\ UNCHANGED <<hooks, init_param, uvars>>
    /\ UNCHANGED <<results, wpc, shot, scope>>
    /\ UNCHANGED fvars

\* the first shoot of a worker; CustomGun.shoot calls self.module.shoot
\* inside try / except Exception, so a module without shoot gives a
\* warning for every missile
FirstShot ==
    /\ phase = "ready"
    /\ ~attempted
    /\ attempted' = TRUE
    /\ UNCHANGED <<gun, scenarios, cfg, opt, unit, phase, gerr>>
    /\ UNCHANGED <<hooks, init_param, called, uvars>>
    /\ UNCHANGED <<results, wpc, shot, scope>>
    /\ UNCHANGED fvars

\* teardown(), at the end of the test: AbstractGun.teardown does nothing;
\* UltimateGun calls load_test.teardown() when that attribute is callable
GunTeardown ==
    /\ phase = "ready"
    /\ phase' = "done"
    /\ called' = IF gun = "ultimate" /\ HookIsCalled(hooks["teardown"])
                   THEN [called EXCEPT !.teardown = TRUE]
                   ELSE called
    /\ UNCHANGED <<gun, scenarios, cfg, opt, unit, gerr, attempted>>
    /\ UNCHANGED <<hooks, init_param, uvars>>
    /\ UNCHANGED <<results, wpc, shot, scope>>
    /\ UNCHANGED fvars

NextSetup == GetOption \/ Construct \/ GunSetup \/ FirstShot \/ GunTeardown

SpecSetup == InitSetup /\ [][NextSetup]_vars

(***************************************************************************)
(* Lock retry in real time.  Thread t1 is inside read_with_lock and holds   *)
(* the lock; it may go on and release it, or keep it for ever (a read that *)
(* blocks).  Thread t2 runs reads and closes; every failed attempt of its  *)
(* wait_lock is followed by a sleep of 5 to 20 ms, and the thread is       *)
(* always scheduled again.                                                 *)
(***************************************************************************)
Holder == "t1"
Waiter == "t2"

InitRetry ==
    /\ gun = "scenario"
    /\ scenarios = {}
    /\ GunRest
    /\ SetupRest
    /\ file = <<>>
    /\ stop = FALSE
    /\ is_locked = TRUE
    /\ opened = TRUE
    /\ handlePos = 0
    /\ pc = [t \in Threads |-> IF t = Holder THEN "seek" ELSE "idle"]
    /\ call = [t \in Threads |-> IF t = Holder THEN "read" ELSE "none"]
    /\ arg_pos = [t \in Threads |-> 0]
    /\ arg_len = [t \in Threads |-> 0]
    /\ result = [t \in Threads |-> <<>>]
    /\ stop_pos = [t \in Threads |-> 0]
    /\ exc = [t \in Threads |-> NoExc]
    /\ delay = [t \in Threads |-> 0]
    /\ cursor = [t \in Threads |-> 0]
    /\ cache_size = [t \in Threads |->
                         IF t = Holder THEN GetFileCacheSize(0) ELSE 0]
    /\ at_eof = [t \in Threads |-> FALSE]

WaitLockBusyRetry(t) ==
    \E d \in {WaitRandomMin, WaitRandomMax} :
        WaitLockBusyFor(t, d, StopMaxDelay + WaitRandomMax)

HolderStep ==
    \/ Seek(Holder)
    \/ ReadStep(Holder)
    \/ Tell(Holder)
    \/ Unlock(Holder)
    \/ StopCheck(Holder)
    \/ Return(Holder)

WaiterStep ==
    \/ GetFile(Waiter)
    \/ CallRead(Waiter)
    \/ CallReadline(Waiter)
    \/ CallClose(Waiter)
    \/ WaitLockFree(Waiter)
    \/ WaitLockBusyRetry(Waiter)
    \/ SetLock(Waiter)
    \/ Seek(Waiter)
    \/ ReadStep(Waiter)
    \/ Tell(Waiter)
    \/ FClose(Waiter)
    \/ Unlock(Waiter)
    \/ StopCheck(Waiter)
    \/ Return(Waiter)

NextRetry == SetStop \/ HolderStep \/ WaiterStep

SpecRetry == InitRetry /\ [][NextRetry]_vars /\ WF_vars(WaiterStep)

(***************************************************************************)
(* The Cleanup and Finish context managers of util.py, as the worker       *)
(* thread uses them: with Cleanup(worker) as add_cleanup: ... with         *)
(* Finish(worker): ... .  The methods of the worker and of the core that   *)
(* they call are taken to return.                                          *)
(***************************************************************************)
\* everything outside the utilities
pvars == <<fvars, gun, scenarios, cfg, opt, unit, phase, gerr, attempted,
           hooks, init_param, called, results, wpc, shot, scope>>

Retcodes == 0..MaxRetcode
NotCallable == "<not callable>"


Reversed_Forward(q) == q

\* reversed(self._actions)
RECURSIVE Reversed(_)
Reversed(q) == IF q = <<>> THEN <<>> ELSE Append(Reversed(Tail(q)), Head(q))

\* try: action() except Exception: the handler takes what is an Exception
CleanupCatches(e) == IsException(e)

\* Cleanup.__exit__ returns False, Finish.__exit__ returns True
CleanupExitValue == FALSE
FinishExitValue == TRUE

\* the with statement: the exception goes on unless __exit__ returned true
AfterExit(ret, e) == IF ret THEN NoExc ELSE e

\* a Finish that hands the worker's retcode on whatever the body did
FinishRetcode_Current(rc, e) == rc

\* retcode = self.worker.retcode; if exc_type: retcode = 1
FinishRetcode(rc, e) == IF e # NoExc THEN 1 ELSE rc

InitWorker ==
    /\ FileInit
    /\ gun = "scenario"
    /\ scenarios = {}
    /\ GunRest
    /\ ConfigRest
    /\ actions = <<>>
    /\ queue = <<>>
    /\ ran = <<>>
    /\ where = "cleanup"
    /\ raised = NoExc
    /\ retcode \in Retcodes
    /\ status = "TEST_PREPARING"
    /\ end_test = <<>>
    /\ calls = <<>>
    /\ escaped = NoExc
    /\ msgs = 0
    /\ worker_msgs = 0
    /\ TailRest
    /\ ScannerRest

\* add_action(name, fn): assert callable(fn); self._actions.append(...)
\* The name is the ordinal of the registration.
AddAction ==
    /\ where \in {"cleanup", "finish"}
    /\ raised = NoExc
    /\ Len(actions) < MaxActions
    /\ \E fn \in {NoExc, NotCallable} \cup Errors :
          IF fn = NotCallable
            THEN /\ raised' = "AssertionError"
                 /\ actions' = actions
            ELSE /\ raised' = raised
                 /\ actions' = Append(actions, [name |-> Len(actions) + 1,
                                                raises |-> fn])
    /\ UNCHANGED <<queue, ran, where, retcode, status, end_test, calls,
                   escaped, msgs, worker_msgs>>
    /\ UNCHANGED <<pvars, tail, scanner>>

\* Finish.__enter__: pass
FinishEnter ==
    /\ where = "cleanup"
    /\ raised = NoExc
    /\ end_test = <<>>
    /\ where' = "finish"
    /\ UNCHANGED <<actions, queue, ran, raised, retcode, status, end_test,
                   calls, escaped, msgs, worker_msgs>>
    /\ UNCHANGED <<pvars, tail, scanner>>

\* the body of the innermost open context raises
BodyRaises ==
    /\ where \in {"cleanup", "finish"}
    /\ raised = NoExc
    /\ \E e \in Errors : raised' = e
    /\ UNCHANGED <<actions, queue, ran, where, retcode, status, end_test,
                   calls, escaped, msgs, worker_msgs>>
    /\ UNCHANGED <<pvars, tail, scanner>>

\* Finish.__exit__(exc_type, exc_val, exc_tb)
FinishExit ==
    /\ where = "finish"
    /\ status' = "TEST_FINISHING"
    /\ worker_msgs' = IF raised # NoExc THEN worker_msgs + 1 ELSE worker_msgs
    /\ \E r \in Retcodes :
          /\ end_test' = Append(end_test,
                                [arg |-> FinishRetcode(retcode, raised),
                                 ret |-> r])
          /\ retcode' = r
    /\ raised' = AfterExit(FinishExitValue, raised)
    /\ where' = "cleanup"
    /\ UNCHANGED <<actions, queue, ran, calls, escaped, msgs>>
    /\ UNCHANGED <<pvars, tail, scanner>>

\* Cleanup.__exit__, up to the loop: if exc_type: ... retcode = 1
CleanupExit ==
    /\ where = "cleanup"
    /\ retcode' = IF raised # NoExc THEN 1 ELSE retcode
    /\ msgs' = IF raised # NoExc THEN msgs + 1 ELSE msgs
    /\ queue' = Reversed(actions)
    /\ where' = "actions"
    /\ UNCHANGED <<actions, ran, raised, status, end_test, calls, escaped>>
    /\ UNCHANGED worker_msgs
    /\ UNCHANGED <<pvars, tail, scanner>>

\* one turn of the loop: try: action() except Exception: msgs.append(msg).
\* What the handler does not take leaves __exit__ in place of the
\* exception of the body.
RunAction ==
    /\ where = "actions"
    /\ queue # <<>>
    /\ queue' = Tail(queue)
    /\ ran' = Append(ran, Head(queue).name)
    /\ IF Head(queue).raises = NoExc
         THEN UNCHANGED <<where, escaped, msgs>>
         ELSE IF CleanupCatches(Head(queue).raises)
                THEN msgs' = msgs + 1 /\ UNCHANGED <<where, escaped>>
                ELSE /\ escaped' = Head(queue).raises
                     /\ where' = "out"
                     /\ msgs' = msgs
    /\ UNCHANGED <<actions, raised, retcode, status, end_test, calls>>
    /\ UNCHANGED worker_msgs
    /\ UNCHANGED <<pvars, tail, scanner>>

\* Cleanup.__exit__, after the loop
CleanupEnd ==
    /\ where = "actions"
    /\ queue = <<>>
    /\ calls' = calls \o <<"add_msgs", "save_finish_status",
                           "_collect_artifacts", "close">>
    /\ worker_msgs' = worker_msgs + msgs
    /\ status' = "TEST_FINISHED"
    /\ escaped' = AfterExit(CleanupExitValue, raised)
    /\ where' = "out"
    /\ UNCHANGED <<actions, queue, ran, raised, retcode, end_test, msgs>>
    /\ UNCHANGED <<pvars, tail, scanner>>

NextWorker ==
    \/ AddAction
    \/ FinishEnter
    \/ BodyRaises
    \/ FinishExit
    \/ CleanupExit
    \/ RunAction
    \/ CleanupEnd

SpecWorker == InitWorker /\ [][NextWorker]_vars

(***************************************************************************)
(* tail_lines(filepath, lines_num, bufsize=8192) of util.py.               *)
(***************************************************************************)
Max(a, b) == IF a > b THEN a ELSE b

\* f.readlines() with the handle at position p
RECURSIVE ReadLinesFrom(_, _)
ReadLinesFrom(f, p) ==
    IF p >= Len(f) THEN <<>>
    ELSE <<FileReadline(f, p)>> \o ReadLinesFrom(f, LineEnd(f, p))

\* f.tell() after f.seek(p) and f.readlines()
TellAfterReadlines(f, p) == Max(p, Len(f))

\* data[-lines_num:]
LastItems(q, n) == IF Len(q) <= n THEN q ELSE SubSeq(q, Len(q) - n + 1, Len(q))

\* fsize = os.stat(filepath).st_size
fsize == Len(tail_file)

\* line_start_pos = max(0, fsize - bufsize * iter_)
LineStartPos(size, buf, it) == Max(0, size - buf * it)

InitTail ==
    /\ FileInit
    /\ gun = "scenario"
    /\ scenarios = {}
    /\ GunRest
    /\ ConfigRest
    /\ WorkerRest
    /\ ScannerRest
    /\ tail_file \in SeqsUpTo(Chars, MaxTailLen)
    /\ lines_num \in 1..MaxLinesNum
    /\ bufsize \in 1..MaxBufsize \cup {BufsizeDefault}
    /\ iter_ = 0
    /\ data = <<>>
    /\ tail_pc = "open"
    /\ tail_ret = <<>>

\* with open(filepath) as f: if bufsize > fsize: bufsize = fsize - 1
TailOpen ==
    /\ tail_pc = "open"
    /\ bufsize' = IF bufsize > fsize THEN fsize - 1 ELSE bufsize
    /\ tail_pc' = "loop"
    /\ UNCHANGED <<tail_file, lines_num, iter_, data, tail_ret>>
    /\ UNCHANGED <<pvars, worker, scanner>>

\* one turn of while True.  From MaxIter on a larger iter_ seeks to the
\* same place (0 for a positive bufsize, the end of the file for 0) or to
\* one more place past the end of the file (for -1), where readlines and
\* tell do the same again: the counter is kept at MaxIter.
TailLoop ==
    /\ tail_pc = "loop"
    /\ iter_' = Min(iter_ + 1, MaxIter)
    /\ LET line_start_pos == LineStartPos(fsize, bufsize, iter_')
       IN  /\ data' = data \o ReadLinesFrom(tail_file, line_start_pos)
           /\ IF \/ Len(data') >= lines_num
                 \/ TellAfterReadlines(tail_file, line_start_pos) = 0
                THEN /\ tail_ret' = LastItems(data', lines_num)
                     /\ tail_pc' = "done"
                ELSE /\ tail_ret' = tail_ret
                     /\ tail_pc' = tail_pc
    /\ UNCHANGED <<tail_file, lines_num, bufsize>>
    /\ UNCHANGED <<pvars, worker, scanner>>

NextTail == TailOpen \/ TailLoop

SpecTail == InitTail /\ [][NextTail]_vars /\ WF_vars(NextTail)

(***************************************************************************)
(* FileScanner._read_lines of util.py, its generator run to the end.       *)
(***************************************************************************)
ScanChars == {"a", "\r", "\n"}
Separators == {<<"\n">>, <<"\r", "\n">>}

\* where separator d first occurs in s (0: nowhere)
RECURSIVE FindFrom(_, _, _)
FindFrom(s, d, i) ==
    IF i + Len(d) - 1 > Len(s) THEN 0
    ELSE IF SubSeq(s, i, i + Len(d) - 1) = d THEN i
    ELSE FindFrom(s, d, i + 1)

\* a split that leaves the empty portions out, as str.split() does
RECURSIVE SplitPortions_NoEmpty(_, _)
SplitPortions_NoEmpty(s, d) ==
    LET i == FindFrom(s, d, 1)
        rest == SubSeq(s, i + Len(d), Len(s))
    IN  IF i = 0 THEN <<s>>
        ELSE IF i = 1 THEN SplitPortions_NoEmpty(rest, d)
        ELSE <<SubSeq(s, 1, i - 1)>> \o SplitPortions_NoEmpty(rest, d)

\* self.__buffer.split(self.__sep)
RECURSIVE SplitPortions(_, _)
SplitPortions(s, d) ==
    LET i == FindFrom(s, d, 1)
    IN  IF i = 0 THEN <<s>>
        ELSE <<SubSeq(s, 1, i - 1)>>
                 \o SplitPortions(SubSeq(s, i + Len(d), Len(s)), d)

InitScanner ==
    /\ FileInit
    /\ gun = "scenario"
    /\ scenarios = {}
    /\ GunRest
    /\ ConfigRest
    /\ WorkerRest
    /\ TailRest
    /\ sep \in Separators
    /\ buffer = <<>>
    /\ chunk = <<>>
    /\ fed = <<>>
    /\ yielded = <<>>

\* _read_lines(chunk), consumed to its end
ReadLines ==
    /\ \E c \in SeqsUpTo(ScanChars, MaxChunkLen) :
          /\ Len(fed) + Len(c) <= MaxFedLen
          /\ chunk' = c
          /\ fed' = fed \o c
          /\ LET portions == SplitPortions(buffer \o c, sep)
             IN  /\ yielded' = yielded \o SubSeq(portions, 1, Len(portions) - 1)
                 /\ buffer' = portions[Len(portions)]
    /\ sep' = sep
    /\ UNCHANGED <<pvars, worker, tail>>

NextScanner == ReadLines

SpecScanner == InitScanner /\ [][NextScanner]_vars

(***************************************************************************)
(* Claims about the shared file multiplexer.                               *)
(***************************************************************************)
Holders == {t \in Threads : InCritical(t)}

\* C1: at most one read_with_lock or close is between a successful wait_lock
\* and its unlock at any instant.
C1_MutualExclusion == Cardinality(Holders) <= 1

\* What a read hands back to its FileLike: the data (none for the sentinel).
Delivered(t) == IF result[t] = None THEN <<>> ELSE result[t]

\* C2: every read of a cursor delivers exactly the bytes of the file that
\* follow the position the cursor had, and moves the cursor past them: by
\* induction the data a cursor has received is the prefix of the file that
\* ends at its position, nothing delivered twice, nothing skipped.
C2_NoDuplicateNoSkip ==
    \A t \in Threads :
        (pc[t] = "ret" /\ call[t] = "read" /\ exc[t] = NoExc) =>
            /\ cursor[t] + Len(Delivered(t)) <= Len(file)
            /\ Delivered(t) =
                  SubSeq(file, cursor[t] + 1, cursor[t] + Len(Delivered(t)))
            /\ stop_pos[t] = cursor[t] + Len(Delivered(t))

\* C3: every execution of wait_lock eventually either acquires the lock or
\* raises to its caller, also when the lock stays held for ever.
C3_WaitLockTerminates ==
    \A t \in Threads : (pc[t] = "wait_lock") ~> (pc[t] # "wait_lock")

\* the waiter has given up: RetryError is on its way to the caller while
\* the lock is still held
C3_Witness ==
    pc[Waiter] = "ret" /\ exc[Waiter] = "RetryError" /\ is_locked

\* C4: a read at a cursor with no bytes past it gives the sentinel None when
\* the stop signal is set at its stop check and the empty string when it is
\* not set; a read that got data returns that data, never the sentinel.
C4_SentinelPolicy ==
    [][\A t \in Threads :
          (pc[t] = "check" /\ pc'[t] = "ret") =>
              /\ at_eof[t] => result'[t] = (IF stop THEN None ELSE <<>>)
              /\ result[t] # <<>> => result'[t] = result[t]]_vars

\* C10: the file handle is never closed while a read_with_lock is between
\* its lock acquisition and its unlock.
C10_CloseNeverRacesRead ==
    [][(opened /\ ~opened') =>
          \A t \in Threads : ~(call[t] = "read" /\ InCritical(t))]_vars

\* C11: a close of a multiplexer that is already closed goes through like
\* the first one: the handle's close raises nothing, the handle stays
\* closed, and close releases the lock and returns without an error.
C11_CloseIdempotent ==
    [][\A t \in Threads :
          /\ (pc[t] = "fclose" /\ ~opened /\ pc'[t] # "fclose") =>
                 pc'[t] = "unlock" /\ ~opened' /\ exc'[t] = NoExc
          /\ (call[t] = "close" /\ pc[t] = "unlock" /\ pc'[t] # "unlock") =>
                 /\ pc'[t] = "ret" /\ exc'[t] = NoExc
                 /\ ~opened' /\ ~is_locked']_vars

\* both threads have closed the multiplexer and are about to return: the
\* later of the two closes met a closed handle
C11_Witness ==
    /\ \A t \in Threads : call[t] = "close" /\ pc[t] = "ret" /\ exc[t] = NoExc
    /\ ~opened
    /\ ~is_locked

\* C12: a wait_lock that gives up hands RetryError to the caller of
\* read_with_lock and nothing else happens: the handle is not touched, the
\* lock flag stays set, and the FileLike's cursor is what it was.
C12_LockExhaustion ==
    [][\A t \in Threads :
          /\ (pc[t] = "wait_lock" /\ pc'[t] = "ret") =>
                 /\ exc'[t] = "RetryError"
                 /\ is_locked /\ is_locked'
                 /\ handle' = handle
                 /\ cursor' = cursor
          /\ (pc[t] = "ret" /\ exc[t] = "RetryError" /\ pc'[t] # "ret") =>
                 /\ pc'[t] = "idle"
                 /\ cursor'[t] = cursor[t]
                 /\ is_locked' = is_locked
                 /\ handle' = handle]_vars

\* a read with bytes past its cursor has failed on the lock
C12_Witness ==
    \E t \in Threads :
        /\ call[t] = "read" /\ pc[t] = "ret" /\ exc[t] = "RetryError"
        /\ is_locked
        /\ cursor[t] > 0

\* C14: only the return of a read into its FileLike changes a cursor, and
\* it changes that FileLike's cursor alone; every read starts by moving the
\* handle to the cursor of the FileLike that called it, wherever the
\* previous read left the handle.
C14_CursorFrame ==
    [][/\ \A t \in Threads :
             (pc[t] = "seek" /\ pc'[t] = "read") => handlePos' = cursor[t]
       /\ \A t \in Threads :
             cursor'[t] # cursor[t] =>
                 /\ call[t] = "read" /\ pc[t] = "ret" /\ pc'[t] = "idle"
                 /\ \A u \in Threads \ {t} : cursor'[u] = cursor[u]]_vars

\* one cursor has read to the end of the file; the other, still at 0, has
\* taken the handle back to its own position
C14_Witness ==
    \E t, u \in Threads :
        /\ cursor[t] > 0 /\ pc[t] = "idle"
        /\ cursor[u] = 0 /\ pc[u] = "read" /\ handlePos = 0

\* C19: a read_with_lock that has the lock leaves seek, read and tell only
\* towards its unlock, also when one of them raises, and its unlock clears
\* the flag before the call returns or raises; and whenever no thread is
\* inside a read or a close the flag is clear.
C19_LockReleased ==
    [][/\ \A t \in Threads :
             /\ (pc[t] \in {"seek", "read", "tell"} /\ pc'[t] # pc[t]) =>
                    pc'[t] \in {"read", "tell", "unlock"}
             /\ (pc[t] = "unlock" /\ pc'[t] # "unlock") =>
                    ~is_locked' /\ pc'[t] \in {"check", "ret"}
       /\ (\A t \in Threads : pc'[t] = "idle") => ~is_locked']_vars

\* a read has failed on the closed handle and is about to raise, the other
\* thread is idle, and the lock is free
C19_Witness ==
    \E t \in Threads :
        /\ call[t] = "read" /\ pc[t] = "ret" /\ exc[t] = "ValueError"
        /\ \A u \in Threads \ {t} : pc[u] = "idle"
        /\ ~is_locked

\* C24: a read that hands the sentinel None to its caller hands it a
\* position with no byte of the file past it, whatever the writer and the
\* stop signal did while the read was under way.
C24_SentinelOnlyAtEnd ==
    \A t \in Threads :
        (pc[t] = "ret" /\ call[t] = "read" /\ exc[t] = NoExc
                       /\ result[t] = None) => stop_pos[t] >= Len(file)

\* C25: a cursor is 0 until its first read, never goes past the end of the
\* file, and the return of a successful read moves it forward by exactly
\* the length of the data the read returned (not at all for an empty read
\* or the sentinel); no other step moves it.
C25_CursorAdvance ==
    [][\A t \in Threads :
          /\ cache_size[t] = 0 => cursor'[t] = 0
          /\ cursor'[t] <= Len(file')
          /\ cursor'[t] >= cursor[t]
          /\ (pc[t] = "ret" /\ call[t] = "read" /\ exc[t] = NoExc
                            /\ pc'[t] = "idle") =>
                 cursor'[t] = cursor[t] + Len(Delivered(t))]_vars

\* C26: once the handle is closed it stays closed, and a read that meets
\* the closed handle raises ValueError from its seek, goes through unlock,
\* which clears the lock flag, and reaches its caller as an error that
\* leaves the FileLike's cursor where it was.
C26_ReadAfterClose ==
    [][/\ ~opened => ~opened'
       /\ \A t \in Threads :
             /\ (pc[t] = "seek" /\ ~opened /\ pc'[t] # "seek") =>
                    pc'[t] = "unlock" /\ exc'[t] = "ValueError"
             /\ (call[t] = "read" /\ pc[t] = "unlock" /\ exc[t] # NoExc
                                  /\ pc'[t] # "unlock") =>
                    pc'[t] = "ret" /\ exc'[t] = exc[t] /\ ~is_locked'
             /\ (call[t] = "read" /\ pc[t] = "ret" /\ exc[t] # NoExc
                                  /\ pc'[t] # "ret") =>
                    pc'[t] = "idle" /\ cursor'[t] = cursor[t]]_vars

\* a cursor that had read to position 1 has read again after the other
\* thread's close completed: ValueError is on its way to the caller, the
\* lock is free
C26_Witness ==
    \E t \in Threads :
        /\ call[t] = "read" /\ pc[t] = "ret" /\ exc[t] = "ValueError"
        /\ cursor[t] > 0
        /\ ~opened
        /\ ~is_locked
        /\ \A u \in Threads \ {t} : pc[u] = "idle" /\ cache_size[u] = 0

(***************************************************************************)
(* Claims about the measurement scope and the scenario dispatch.           *)
(***************************************************************************)
\* the body of w's scope raised without assigning proto_code or net_code
RaisedBeforeCodes(w) ==
    wpc[w] = "exit" /\ body[w].err # NoExc
                    /\ body[w].proto = Keep /\ body[w].net = Keep

\* C5: the record of a shot whose body raises before it assigns proto_code
\* or net_code has proto_code 500 and net_code 1.
C5_RaisedShotCodes ==
    \A w \in Workers :
        RaisedBeforeCodes(w) =>
            item[w].proto_code = 500 /\ item[w].net_code = 1

\* C6: when the body raises, the exception that leaves the scope is the one
\* the body raised, and by then the record has been offered to the queue,
\* whether the queue took it or was full.
C6_ScopeReraisesOriginal ==
    \A w \in Workers :
        (wpc[w] = "exit" /\ body[w].err # NoExc) =>
            /\ out[w] = body[w].err
            /\ offer[w] \in {"accepted", "dropped"}

\* a body raised, the put met a full queue, and the original error leaves
C6_Witness ==
    \E w \in Workers :
        /\ wpc[w] = "exit"
        /\ body[w].err = "ValueError"
        /\ offer[w] = "dropped"
        /\ out[w] = "ValueError"

\* C7: every record offered to the queue has interval_real set, whether the
\* body completed or raised and whether or not it assigned the field.
C7_IntervalNonNull ==
    /\ \A w \in Workers :
          offer[w] # "none" => item[w].interval_real # NoInterval
    /\ \A k \in 1..Len(results) : results[k].interval_real # NoInterval

\* a raising body that left interval_real alone: the queue holds its record
\* with the elapsed time
C7_Witness ==
    \E w \in Workers :
        /\ wpc[w] = "exit"
        /\ body[w].err # NoExc
        /\ body[w].interval = Keep
        /\ offer[w] = "accepted"
        /\ item[w].interval_real \in ElapsedMicros
        /\ \E k \in 1..Len(results) : results[k] = item[w]

\* C8: the queue never holds more than its capacity, a worker about to
\* close its scope can always do so (the put does not wait for room), and a
\* worker whose record was dropped has left its scope.
C8_PutNeverBlocks ==
    /\ Len(results) <= Capacity
    /\ \A w \in Workers : wpc[w] = "body" => ENABLED Measure(w)
    /\ \A w \in Workers : offer[w] = "dropped" => wpc[w] = "exit"

\* two workers have closed their scopes on a queue with room for one: one
\* record is in the queue, the other was dropped
C8_Witness ==
    \E w, v \in Workers :
        /\ wpc[w] = "exit" /\ offer[w] = "dropped"
        /\ wpc[v] = "exit" /\ offer[v] = "accepted"
        /\ Len(results) = Capacity

\* the part of m before its last "#" (all of m when it has none), "default"
\* when that part is empty
IsStripped(m, n) ==
    IF \A i \in 1..Len(m) : m[i] # "#"
      THEN n = (IF m = <<>> THEN Default ELSE m)
      ELSE \E k \in 1..Len(m) :
              /\ m[k] = "#"
              /\ \A j \in (k + 1)..Len(m) : m[j] # "#"
              /\ n = (IF k = 1 THEN Default ELSE SubSeq(m, 1, k - 1))

\* C9: shoot looks up the part of the marker before its last "#", or
\* "default" when that part is empty; a shot whose name is no scenario
\* returns without opening a scope and without a record offered, any other
\* calls its scenario.
C9_ScenarioDispatch ==
    [][\A w \in Workers :
          /\ (gun \in {"scenario", "ultimate"}
                 /\ wpc[w] = "idle" /\ wpc'[w] # "idle") =>
                 wpc'[w] = "lookup" /\ IsStripped(raw'[w], name'[w])
          /\ (wpc[w] = "lookup" /\ wpc'[w] # "lookup") =>
                 IF name[w] \in scenarios
                   THEN wpc'[w] = "body"
                   ELSE /\ wpc'[w] = "idle"
                        /\ results' = results
                        /\ offer'[w] = "none"]_vars

\* marker "##" is looked up as "#", which is no scenario, while another
\* worker's shot has been dispatched
C9_Witness ==
    \E w, v \in Workers :
        /\ wpc[w] = "lookup"
        /\ raw[w] = <<"#", "#">>
        /\ name[w] = <<"#">>
        /\ name[w] \notin scenarios
        /\ wpc[v] = "body"

\* C13: the step that closes a scope makes exactly one put, which the queue
\* takes (the record is its new last element) or, being full, drops (the
\* queue is unchanged, and the exception leaving the scope is still only
\* the body's); no other step adds a record.  So the records accepted and
\* the records dropped add up to the scopes closed.
C13_OneRecordPerScope ==
    [][/\ \A w \in Workers :
             (wpc[w] = "body" /\ wpc'[w] # "body") => wpc'[w] = "exit"
       /\ \A w \in Workers :
             (wpc[w] # "exit" /\ wpc'[w] = "exit") =>
                 /\ out'[w] = body'[w].err
                 /\ IF Len(results) < Capacity
                      THEN /\ offer'[w] = "accepted"
                           /\ results' = Append(results, item'[w])
                      ELSE /\ offer'[w] = "dropped"
                           /\ results' = results
       /\ (\A w \in Workers : ~(wpc[w] # "exit" /\ wpc'[w] = "exit")) =>
             /\ Len(results') <= Len(results)
             /\ \A w \in Workers : offer'[w] \in {offer[w], "none"}]_vars

\* one scope has completed and its record was taken; another has raised on
\* the full queue and its record was dropped
C13_Witness ==
    \E w, v \in Workers :
        /\ wpc[w] = "exit" /\ body[w].err = NoExc /\ offer[w] = "accepted"
        /\ wpc[v] = "exit" /\ body[v].err # NoExc /\ offer[v] = "dropped"
        /\ out[v] = body[v].err

\* the codes as the body of w's scope left them
BodyProto(w) == IF body[w].proto = Keep THEN 200 ELSE body[w].proto
BodyNet(w) == IF body[w].net = Keep THEN 0 ELSE body[w].net

\* C20: in the record of a scope whose body raised, proto_code differs from
\* what the body left only when that was 200 and it is now 500, net_code
\* differs from what the body left only when that was 0 and it is now 1,
\* and a code the body set to another value is in the record as set.
C20_OverrideOnlyDefaults ==
    \A w \in Workers :
        (wpc[w] = "exit" /\ body[w].err # NoExc) =>
            /\ item[w].proto_code # BodyProto(w) =>
                   BodyProto(w) = 200 /\ item[w].proto_code = 500
            /\ item[w].net_code # BodyNet(w) =>
                   BodyNet(w) = 0 /\ item[w].net_code = 1
            /\ BodyProto(w) # 200 => item[w].proto_code = BodyProto(w)
            /\ BodyNet(w) # 0 => item[w].net_code = BodyNet(w)

\* one body set both codes and raised, and they are kept; another raised
\* with the default proto_code, which became 500
C20_Witness ==
    \E w, v \in Workers :
        /\ wpc[w] = "exit" /\ body[w].err = "ValueError"
        /\ body[w].proto = 404 /\ item[w].proto_code = 404
        /\ body[w].net = 7 /\ item[w].net_code = 7
        /\ wpc[v] = "exit" /\ body[v].err = "ValueError"
        /\ body[v].proto = Keep /\ item[v].proto_code = 500

\* C21: the record of a closed scope has the interval_real the body
\* assigned, 0 included, and the elapsed time only when the body assigned
\* none; the record of LogGun has the value drawn before the scope, which is
\* between 2000 and 30000000.
C21_IntervalOnlyWhenUnset ==
    \A w \in Workers :
        wpc[w] = "exit" =>
            /\ body[w].interval # Keep =>
                   item[w].interval_real = body[w].interval
            /\ body[w].interval = Keep =>
                   item[w].interval_real \in ElapsedMicros
            /\ gun = "log" =>
                   /\ item[w].interval_real = body[w].what.status
                   /\ item[w].interval_real >= 2000
                   /\ item[w].interval_real <= 30000000

\* one body set interval_real to 0 and its record has 0; another left it
\* alone and its record has the elapsed time
C21_Witness ==
    \E w, v \in Workers :
        /\ wpc[w] = "exit" /\ body[w].interval = 0
        /\ item[w].interval_real = 0 /\ offer[w] = "accepted"
        /\ wpc[v] = "exit" /\ body[v].interval = Keep
        /\ item[v].interval_real \in ElapsedMicros

DynamicGuns == {"custom", "scenario", "ultimate"}

C15_GetOption ==
    opt # NoCall =>
        IF cfg[opt.key] # Absent
          THEN opt.exc = NoExc /\ opt.value = cfg[opt.key]
          ELSE IF opt.default = NoneVal
            THEN opt.exc = "GunConfigError"
            ELSE opt.exc = NoExc /\ opt.value = opt.default

\* an absent option was asked for with a falsy default, which came back
C15_Witness ==
    /\ opt # NoCall
    /\ cfg[opt.key] = Absent
    /\ opt.default = ""
    /\ opt.exc = NoExc
    /\ opt.value = ""

\* C16: a gun whose loaded unit lacks the required symbol never gets past
\* its construction and setup: it fails there, and no shot is attempted.
C16_MissingSymbolFatal ==
    ~unit => (phase \in {"new", "failed"} /\ ~attempted)

(***************************************************************************)
(* Claims about HttpGun and SqlGun.                                        *)
(***************************************************************************)
\* C17: a call of HttpGun.shoot whose GET returns a response offers one
\* record with proto_code the status of the response and net_code 0; one
\* whose GET fails with ConnectionError offers one record with net_code 1
\* and proto_code 500; in both cases shoot raises nothing.
C17_HttpShoot ==
    \A w \in Workers :
        (gun = "http" /\ wpc[w] = "exit"
            /\ body[w].what.kind \in {"response", "ConnectionError"}) =>
            /\ offer[w] \in {"accepted", "dropped"}
            /\ ShootRaises(gun, out[w]) = NoExc
            /\ IF body[w].what.kind = "response"
                 THEN /\ item[w].proto_code = body[w].what.status
                      /\ item[w].net_code = 0
                 ELSE /\ item[w].proto_code = 500
                      /\ item[w].net_code = 1

\* one worker's GET got status 503, the other's a connection error; both
\* records are out
C17_Witness ==
    /\ gun = "http"
    /\ \E w, v \in Workers :
          /\ wpc[w] = "exit" /\ body[w].what.kind = "response"
          /\ item[w].proto_code = 503 /\ offer[w] = "accepted"
          /\ wpc[v] = "exit" /\ body[v].what.kind = "ConnectionError"
          /\ item[v].net_code = 1

\* the codes C18 gives for each outcome of the statement
SqlExpected(k) ==
    IF k = "TimeoutError" THEN [proto |-> 200, net |-> 110]
    ELSE IF k \in {"DBAPIError", "SQLAlchemyError", "Exception"}
      THEN [proto |-> 500, net |-> 0]
    ELSE IF k = "SAWarning" THEN [proto |-> 400, net |-> 0]
    ELSE [proto |-> 200, net |-> 0]

\* C18: every call of SqlGun.shoot offers one record with the codes of its
\* outcome (timeout 200/110, driver error 500/0, warning 400/0, resource
\* closed and success 200/0), and shoot raises nothing.
C18_SqlShoot ==
    \A w \in Workers :
        (gun = "sql" /\ wpc[w] = "exit") =>
            /\ offer[w] \in {"accepted", "dropped"}
            /\ item[w].proto_code = SqlExpected(body[w].what.kind).proto
            /\ item[w].net_code = SqlExpected(body[w].what.kind).net
            /\ ShootRaises(gun, out[w]) = NoExc

\* C23: an UltimateGun that has been set up has called load_test.setup with
\* init_param if that attribute is callable and has made no such call
\* otherwise; one that has been torn down has called load_test.teardown if
\* that is callable and not otherwise; neither call is made earlier, and a
\* hook that is absent or not callable raises nothing.
C23_UltimateHooks ==
    gun = "ultimate" =>
        /\ called.setup =
              IF phase \in {"ready", "done"} /\ hooks["setup"] = "callable"
                THEN init_param ELSE NotCalled
        /\ called.teardown =
              (phase = "done" /\ hooks["teardown"] = "callable")
        /\ phase \in {"ready", "done"} => gerr = NoExc

\* a torn-down UltimateGun whose object has setup but no teardown
C23_Witness ==
    /\ gun = "ultimate"
    /\ phase = "done"
    /\ hooks["setup"] = "callable"
    /\ hooks["teardown"] = "absent"
    /\ called.setup = init_param
    /\ ~called.teardown

(***************************************************************************)
(* Claims about the Cleanup and Finish contexts.                           *)
(***************************************************************************)
\* the names of the registered actions, last registered first
RECURSIVE Countdown(_)
Countdown(n) == IF n = 0 THEN <<>> ELSE <<n>> \o Countdown(n - 1)

QueueNames == [i \in 1..Len(queue) |-> queue[i].name]

\* some registered action raises what is not an Exception
SomeActionInterrupts ==
    \E i \in 1..Len(actions) :
        actions[i].raises # NoExc /\ ~IsException(actions[i].raises)

\* C27 as stated: once the Cleanup context is left every registered action
\* has run exactly once, last registered first, whatever the actions
\* raised; the finish status is saved, the status is TEST_FINISHED and the
\* core is closed; the exception of the body, if any, has set retcode to 1
\* and has left the context.
C27_CleanupRunsAll ==
    where = "out" =>
        /\ ran = Countdown(Len(actions))
        /\ calls = <<"add_msgs", "save_finish_status",
                     "_collect_artifacts", "close">>
        /\ status = "TEST_FINISHED"
        /\ escaped = raised
        /\ raised # NoExc => retcode = 1

\* C27 (amended): during the exit the actions are called last registered
\* first, each once; if no action raises anything but an Exception, all of
\* them have run when the context is left, the closing calls have been
\* made, the status is TEST_FINISHED, and the exception of the body, if
\* any, has set retcode to 1 and has left the context; an action that
\* raises a KeyboardInterrupt ends the exit at once with that exception,
\* before the remaining actions and the closing calls.
C27_CleanupRunsAllButInterrupt ==
    /\ where = "actions" => ran \o QueueNames = Countdown(Len(actions))
    /\ where \in {"actions", "out"} /\ raised # NoExc => retcode = 1
    /\ (where = "out" /\ ~SomeActionInterrupts) =>
           /\ ran = Countdown(Len(actions))
           /\ calls = <<"add_msgs", "save_finish_status",
                        "_collect_artifacts", "close">>
           /\ status = "TEST_FINISHED"
           /\ escaped = raised
    /\ (where = "out" /\ SomeActionInterrupts) =>
           /\ ran \o QueueNames = Countdown(Len(actions))
           /\ ~IsException(actions[ran[Len(ran)]].raises)
           /\ escaped = actions[ran[Len(ran)]].raises
           /\ calls = <<>>
           /\ status # "TEST_FINISHED"

\* the body raised after two registrations; the action registered last
\* raised an Exception, and the one registered first still ran after it
C27_Witness ==
    /\ where = "out"
    /\ Len(actions) = 2
    /\ actions[2].raises = "ValueError"
    /\ actions[1].raises = NoExc
    /\ ran = <<2, 1>>
    /\ raised = "ValueError"
    /\ escaped = "ValueError"
    /\ retcode = 1
    /\ status = "TEST_FINISHED"

\* C28: the exit of a Finish context sets the status to TEST_FINISHING,
\* calls plugins_end_test once, with 1 when the body raised and with the
\* worker's retcode otherwise, stores what the call returned as the
\* worker's retcode, and lets no exception of the body out: the worker
\* goes on in the enclosing block.
C28_FinishExit ==
    [][(where = "finish" /\ where' # "finish") =>
          /\ status' = "TEST_FINISHING"
          /\ Len(end_test') = Len(end_test) + 1
          /\ end_test'[Len(end_test')].arg =
                (IF raised # NoExc THEN 1 ELSE retcode)
          /\ retcode' = end_test'[Len(end_test')].ret
          /\ raised' = NoExc
          /\ escaped' = NoExc
          /\ where' = "cleanup"]_vars

\* the body of a Finish context raised while the retcode was 0:
\* plugins_end_test was called with 1, returned 2, and the worker is back
\* in the enclosing block with retcode 2 and no exception
C28_Witness ==
    /\ where = "cleanup"
    /\ end_test = <<[arg |-> 1, ret |-> 2]>>
    /\ worker_msgs = 1
    /\ retcode = 2
    /\ status = "TEST_FINISHING"
    /\ raised = NoExc

(***************************************************************************)
(* Claims about tail_lines and FileScanner.                                *)
(***************************************************************************)
\* x is the line l or what is left of l from some place inside it
IsEndOf(x, l) ==
    /\ x # <<>>
    /\ Len(x) <= Len(l)
    /\ x = SubSeq(l, Len(l) - Len(x) + 1, Len(l))

\* the items of a are ends of different items of b, in the order of b
RECURSIVE InFileOrder(_, _)
InFileOrder(a, b) ==
    IF a = <<>> THEN TRUE
    ELSE IF b = <<>> THEN FALSE
    ELSE IF IsEndOf(Head(a), Head(b)) THEN InFileOrder(Tail(a), Tail(b))
    ELSE InFileOrder(a, Tail(b))

\* C29: every call of tail_lines returns, and what it returns is at most
\* lines_num lines, each of them a line of the file (the first one may be
\* cut at the place the read started), no line twice, in file order.
C29_TailLines ==
    /\ <>(tail_pc = "done")
    /\ [](tail_pc = "done" =>
             /\ Len(tail_ret) <= lines_num
             /\ InFileOrder(tail_ret, ReadLinesFrom(tail_file, 0)))

\* the portions, each followed by the separator
RECURSIVE JoinPortions(_, _)
JoinPortions(ps, d) ==
    IF ps = <<>> THEN <<>> ELSE Head(ps) \o d \o JoinPortions(Tail(ps), d)

\* C30: after any sequence of chunks the yielded portions, each followed by
\* the separator, and then the buffer are the concatenation of the chunks;
\* no yielded portion and no buffer holds a separator.
C30_ReadLinesPartition ==
    /\ JoinPortions(yielded, sep) \o buffer = fed
    /\ \A i \in 1..Len(yielded) : FindFrom(yielded[i], sep, 1) = 0
    /\ FindFrom(buffer, sep, 1) = 0

\* a two-character separator came in two chunks, one character in each:
\* the line before it was yielded whole and the rest is in the buffer
C30_Witness ==
    /\ sep = <<"\r", "\n">>
    /\ fed = <<"a", "\r", "\n", "a">>
    /\ chunk = <<"\n", "a">>
    /\ yielded = << <<"a">> >>
    /\ buffer = <<"a">>

====
